---- MODULE Spec2Model ----
(***************************************************************************)
(* TaskPilot (src/server.py): the task store with its JSON file, and the   *)
(* read-only company directory, as a state machine.                        *)
(*                                                                         *)
(* Python values are modelled as follows.  A dict is a TLA+ record whose   *)
(* DOMAIN is the set of keys present (a task that was never completed has  *)
(* no "completed_at" field).  A list is a sequence.  The text of a JSON    *)
(* file is a tagged tree: [t |-> "int"|"str"|"arr"|"obj", v |-> payload],  *)
(* an object's payload being the sequence of its <<key, value>> members in *)
(* the order they are written; [t |-> "invalid"] is text json.load rejects *)
(* and [t |-> "undecodable"] is bytes that are not UTF-8 text.             *)
(***************************************************************************)
EXTENDS Integers, Sequences, FiniteSets, TLC

VARIABLES pc, tasks, task_id_counter, file, call, result, save_failed,
          faults, companies_file, companies_data

vars == <<pc, tasks, task_id_counter, file, call, result, save_failed,
          faults, companies_file, companies_data>>

-----------------------------------------------------------------------------
(* Bounds of the model. *)

\* add_task is explored while task_id_counter is below this cap.
MaxCounter == 3
\* IOErrors of save_tasks explored in one behaviour.
MaxFaults == 1

\* Readings of the clock (datetime.now()) explored; it may repeat a reading
\* or step back.
Times == {1, 2}
Texts == {"buy milk"}
\* Ids asked for: those add_task can have assigned, and one it cannot.
TaskIds == 1..MaxCounter

\* Outcomes of the open/write of save_tasks: the write completes, open()
\* raises IOError (file untouched), or the write raises IOError after
\* open(..., 'w') truncated the file (a partial document is left).
IoOutcomes == {"ok", "open_fails", "write_fails"}

\* The outcomes explored for the next save_tasks on file f, given the
\* IOErrors so far: open(TASKS_FILE, 'w') fails on a path that cannot be
\* reached.
Io(f, n) ==
    IF ~f.statable
    THEN {"open_fails"}
    ELSE IF n < MaxFaults THEN IoOutcomes ELSE {"ok"}

\* The umask of the process (octal 022 and 400): open(TASKS_FILE, 'w')
\* creates a missing file with mode 0o666 & ~umask.
Umasks == {18, 256}

\* Whether a file created under the umask has the read bit of its owner
\* (octal 400), i.e. whether the process can open it for reading.
created_readable(umask) == (umask \div 256) % 2 = 0

-----------------------------------------------------------------------------
(* JSON text. *)

JInt(n) == [t |-> "int", v |-> n]
JStr(s) == [t |-> "str", v |-> s]
JArr(a) == [t |-> "arr", v |-> a]
JObj(members) == [t |-> "obj", v |-> members]
\* Text that is not JSON (also the empty and the truncated file): json.load
\* raises JSONDecodeError.
JInvalid == [t |-> "invalid", v |-> <<>>]
\* Bytes that are not UTF-8: reading them raises UnicodeDecodeError, a
\* ValueError that is neither a JSONDecodeError nor an IOError.
JUndecodable == [t |-> "undecodable", v |-> <<>>]

\* dict.get(key, default) on the members of a parsed JSON object; json.load
\* keeps the last value of a repeated key.
HasKey(members, key) == \E i \in 1..Len(members) : members[i][1] = key

Member(members, key) ==
    members[CHOOSE i \in 1..Len(members) :
                /\ members[i][1] = key
                /\ \A j \in (i + 1)..Len(members) : members[j][1] # key][2]

\* The order in which the keys of a task dict were inserted (add_task, then
\* complete_task), which is the order json.dump writes them in.
TaskKeys == <<"id", "text", "status", "created_at", "completed_at">>

\* json.dump of one value of a task dict: an int for "id", a string otherwise.
json_value(key, value) == IF key = "id" THEN JInt(value) ELSE JStr(value)

json_dump_task(task) ==
    LET ks == SelectSeq(TaskKeys, LAMBDA k : k \in DOMAIN task)
    IN  JObj([i \in 1..Len(ks) |-> <<ks[i], json_value(ks[i], task[ks[i]])>>])

\* json.dump of a list of task dicts.
json_dump_tasks(ts) == JArr([i \in 1..Len(ts) |-> json_dump_task(ts[i])])

\* json.dump({'tasks': tasks, 'task_id_counter': task_id_counter}, f, indent=2)
json_dump(ts, counter) ==
    JObj(<< <<"tasks", json_dump_tasks(ts)>>,
            <<"task_id_counter", JInt(counter)>> >>)

\* json.load of one task object: the dict of its members.
json_load_task(obj) ==
    [k \in {obj.v[i][1] : i \in 1..Len(obj.v)} |-> Member(obj.v, k).v]

json_load_tasks(arr) == [i \in 1..Len(arr.v) |-> json_load_task(arr.v[i])]

-----------------------------------------------------------------------------
(* The task file. *)

\* TASKS_FILE: whether stat() of the path succeeds (it fails with EACCES
\* when a directory on the way may not be searched, and Path.exists() of
\* Python 3.11 then raises PermissionError), whether the file exists,
\* whether open(TASKS_FILE, 'r') succeeds (the process may read it), and
\* its text.
MissingFile ==
    [statable |-> TRUE, exists |-> FALSE, readable |-> FALSE, content |-> JInvalid]
UnstatableFile ==
    [statable |-> FALSE, exists |-> FALSE, readable |-> FALSE, content |-> JInvalid]
UnreadableFile ==
    [statable |-> TRUE, exists |-> TRUE, readable |-> FALSE, content |-> JInvalid]
TextFile(content) ==
    [statable |-> TRUE, exists |-> TRUE, readable |-> TRUE, content |-> content]

\* The file after open(TASKS_FILE, 'w') and a write of content: a file that
\* exists keeps its mode, so one the process may write but not read stays
\* unreadable; a file that is created has the mode the umask leaves.
WrittenFile(f, content, umask) ==
    [statable |-> TRUE,
     exists |-> TRUE,
     readable |-> IF f.exists THEN f.readable ELSE created_readable(umask),
     content |-> content]

\* The file after open(TASKS_FILE, 'w') truncated or created it and the
\* write raised.
TruncatedFile(f, umask) == WrittenFile(f, JInvalid, umask)

\* isoformat() of a clock reading.
isoformat(now) == "2025-01-01T00:00:0" \o ToString(now)

\* load_tasks: the values of (tasks, task_id_counter) after the call and the
\* exception that escapes it, if any.  An exception escaping before the
\* assignments leaves the globals as they were.
\* IOError and JSONDecodeError are caught (empty collection, counter 1);
\* UnicodeDecodeError and the AttributeError of data.get on a value that is
\* not a dict are not, and TASKS_FILE.exists() stands outside the try.
load_tasks(f, old_tasks, old_counter) ==
    IF ~f.statable
    THEN [raised |-> "PermissionError", tasks |-> old_tasks,
          task_id_counter |-> old_counter]
    ELSE IF f.exists
    THEN IF ~f.readable \/ f.content.t = "invalid"
         THEN [raised |-> "none", tasks |-> <<>>, task_id_counter |-> 1]
         ELSE IF f.content.t = "undecodable"
         THEN [raised |-> "UnicodeDecodeError", tasks |-> old_tasks,
               task_id_counter |-> old_counter]
         ELSE IF f.content.t # "obj"
              THEN [raised |-> "AttributeError", tasks |-> old_tasks,
                    task_id_counter |-> old_counter]
              ELSE [raised |-> "none",
                    tasks |-> IF HasKey(f.content.v, "tasks")
                              THEN json_load_tasks(Member(f.content.v, "tasks"))
                              ELSE <<>>,
                    task_id_counter |->
                        IF HasKey(f.content.v, "task_id_counter")
                        THEN Member(f.content.v, "task_id_counter").v
                        ELSE 1]
    ELSE [raised |-> "none", tasks |-> <<>>, task_id_counter |-> 1]

\* A variant of save_tasks that writes the counter one behind (the value
\* before the increment of add_task).
save_tasks_counter_behind(f, ts, counter, io, umask) ==
    CASE io = "ok" -> WrittenFile(f, json_dump(ts, counter - 1), umask)
      [] io = "open_fails" -> f
      [] io = "write_fails" -> TruncatedFile(f, umask)

\* save_tasks: the file after the call, for an outcome io of Io(f, n).
save_tasks(f, ts, counter, io, umask) ==
    CASE io = "ok" -> WrittenFile(f, json_dump(ts, counter), umask)
      [] io = "open_fails" -> f
      [] io = "write_fails" -> TruncatedFile(f, umask)

-----------------------------------------------------------------------------
(* Task files the process can be started on. *)

\* Tasks of a hand-written file: ids may repeat, a task may be completed.
FileTask(id, done) ==
    IF done
    THEN [id |-> id, text |-> "x", status |-> "completed",
          created_at |-> isoformat(1), completed_at |-> isoformat(1)]
    ELSE [id |-> id, text |-> "x", status |-> "pending",
          created_at |-> isoformat(1)]

\* The hand-written documents explored: no "task_id_counter" and a repeated
\* id; both keys and an id repeated around another task; no "tasks"; no key
\* at all; a JSON array; a JSON number; text that is not JSON; bytes that
\* are not UTF-8.
FileDocuments ==
    { JObj(<< <<"tasks", json_dump_tasks(<<FileTask(1, FALSE), FileTask(1, TRUE)>>)>> >>),
      JObj(<< <<"tasks", json_dump_tasks(<<FileTask(2, FALSE), FileTask(1, FALSE),
                                           FileTask(2, FALSE)>>)>>,
              <<"task_id_counter", JInt(3)>> >>),
      JObj(<< <<"task_id_counter", JInt(2)>> >>),
      JObj(<<>>), JArr(<<>>), JInt(0), JInvalid, JUndecodable }

InitFiles == {MissingFile, UnstatableFile, UnreadableFile} \cup {TextFile(d) : d \in FileDocuments}

-----------------------------------------------------------------------------
(* Calls and their results. *)

\* call is the tool call (or module-level call) made last, with its
\* arguments and the clock reading it took; result is what it returned: a ToolResult (content[0].text,
\* structured_content, meta), None, or the exception it raised.
ToolResult(text, sc, meta) ==
    [raised |-> "none", text |-> text, sc |-> sc, meta |-> meta]

Raised(exception) ==
    [raised |-> exception, text |-> "", sc |-> <<>>, meta |-> <<>>]

ReturnedNone == Raised("none")

NoCall == [op |-> "none"]

-----------------------------------------------------------------------------
(* The operations on the task list. *)

HasTask(ts, task_id) == \E i \in 1..Len(ts) : ts[i].id = task_id

\* The index the loop of complete_task stops at: the first task with the id.
FirstMatch(ts, task_id) ==
    CHOOSE i \in 1..Len(ts) :
        /\ ts[i].id = task_id
        /\ \A j \in 1..(i - 1) : ts[j].id # task_id

\* task["status"] = "completed"; task["completed_at"] = <stamp>
mark_completed(task, stamp) ==
    [k \in DOMAIN task \cup {"status", "completed_at"} |->
        CASE k = "status" -> "completed"
          [] k = "completed_at" -> stamp
          [] OTHER -> task[k]]

\* A variant of complete_loop without the break: every match is marked.
complete_every_match(ts, task_id, stamp) ==
    [i \in 1..Len(ts) |->
        IF ts[i].id = task_id THEN mark_completed(ts[i], stamp) ELSE ts[i]]

\* The loop of complete_task, which breaks at the first match.
complete_loop(ts, task_id, stamp) ==
    IF HasTask(ts, task_id)
    THEN [ts EXCEPT ![FirstMatch(ts, task_id)] = mark_completed(@, stamp)]
    ELSE ts

\* A variant of delete_filter that takes task_id for a position in the list.
delete_at_position(ts, task_id) ==
    IF task_id \in 1..Len(ts)
    THEN SubSeq(ts, 1, task_id - 1) \o SubSeq(ts, task_id + 1, Len(ts))
    ELSE ts

\* A variant of delete_filter that removes the first match only.
delete_first_match(ts, task_id) ==
    IF \E i \in 1..Len(ts) : ts[i].id = task_id
    THEN LET k == CHOOSE i \in 1..Len(ts) :
                      ts[i].id = task_id /\ \A j \in 1..(i - 1) : ts[j].id # task_id
         IN  SubSeq(ts, 1, k - 1) \o SubSeq(ts, k + 1, Len(ts))
    ELSE ts

\* tasks = [t for t in tasks if t["id"] != task_id]
delete_filter(ts, task_id) == SelectSeq(ts, LAMBDA t : t.id # task_id)

\* A variant of new_task that takes the id after the increment.
new_task_incremented(counter, text, now) ==
    [id |-> counter + 1, text |-> text, status |-> "pending",
     created_at |-> isoformat(now)]

\* The dict add_task appends.
new_task(counter, text, now) ==
    [id |-> counter, text |-> text, status |-> "pending",
     created_at |-> isoformat(now)]

\* A variant of count_status without the condition: every task is counted.
count_every_task(ts, status) == Len(ts)

\* sum(1 for t in tasks if t["status"] == status)
count_status(ts, status) ==
    Cardinality({i \in 1..Len(ts) : ts[i].status = status})

\* The message of list_tasks.
list_message(ts) ==
    IF Len(ts) = 0
    THEN "No tasks found. Add your first task to get started!"
    ELSE "Found " \o ToString(Len(ts)) \o " task(s): "
         \o ToString(count_status(ts, "pending")) \o " pending, "
         \o ToString(count_status(ts, "completed")) \o " completed"

\* The result of list_tasks.
list_result(ts, now) ==
    ToolResult(list_message(ts),
               [tasks |-> ts, total |-> Len(ts),
                pending |-> count_status(ts, "pending"),
                completed |-> count_status(ts, "completed")],
               [operation |-> "list_tasks", timestamp |-> isoformat(now)])

\* A variant of task_not_found whose meta reports success.
task_not_found_success(op, task_id) ==
    ToolResult("Error: Task with ID " \o ToString(task_id) \o " not found",
               [error |-> "Task not found", task_id |-> task_id],
               [operation |-> op, success |-> TRUE])

\* The result complete_task and delete_task return when no task has the id.
task_not_found(op, task_id) ==
    ToolResult("Error: Task with ID " \o ToString(task_id) \o " not found",
               [error |-> "Task not found", task_id |-> task_id],
               [operation |-> op, success |-> FALSE])

-----------------------------------------------------------------------------
(* Strings of the company directory.  A str is the sequence of its          *)
(* characters, so that lower() and the `in` of substrings are computed.     *)

\* The letters str.lower() changes among the characters a string of the
\* model can hold (ASCII and Latin-1): UpperCase[i].lower() is LowerCase[i],
\* and every other character is its own lower case.
UpperCase == <<"A", "B", "C", "D", "E", "F", "G", "H", "I", "J", "K", "L", "M",
               "N", "O", "P", "Q", "R", "S", "T", "U", "V", "W", "X", "Y", "Z",
               "À", "Á", "Â", "Ã", "Ä", "Å", "Æ", "Ç", "È", "É", "Ê", "Ë", "Ì",
               "Í", "Î", "Ï", "Ð", "Ñ", "Ò", "Ó", "Ô", "Õ", "Ö", "Ø", "Ù", "Ú",
               "Û", "Ü", "Ý", "Þ">>
LowerCase == <<"a", "b", "c", "d", "e", "f", "g", "h", "i", "j", "k", "l", "m",
               "n", "o", "p", "q", "r", "s", "t", "u", "v", "w", "x", "y", "z",
               "à", "á", "â", "ã", "ä", "å", "æ", "ç", "è", "é", "ê", "ë", "ì",
               "í", "î", "ï", "ð", "ñ", "ò", "ó", "ô", "õ", "ö", "ø", "ù", "ú",
               "û", "ü", "ý", "þ">>

lower_char(c) ==
    IF \E i \in 1..Len(UpperCase) : UpperCase[i] = c
    THEN LowerCase[CHOOSE i \in 1..Len(UpperCase) : UpperCase[i] = c]
    ELSE c

\* str.lower()
lower(str) == [i \in 1..Len(str) |-> lower_char(str[i])]

\* a in b, for two str
contains(a, b) ==
    \E i \in 0..(Len(b) - Len(a)) : SubSeq(b, i + 1, i + Len(a)) = a

\* The text of a str, as it appears inside a message.
RECURSIVE text_of(_)
text_of(str) == IF str = <<>> THEN "" ELSE Head(str) \o text_of(Tail(str))

\* dict.get(key, default)
get(dict, key, default) == IF key \in DOMAIN dict THEN dict[key] ELSE default

\* An Optional argument is <<>> for None and <<value>> for a value.
None == <<>>
Some(value) == <<value>>

\* `if arg:` for an Optional[str]: None and "" are false.
truthy_str(arg) == arg # None /\ arg[1] # <<>>
\* `if arg:` for an Optional[int]: None and 0 are false.
truthy_int(arg) == arg # None /\ arg[1] # 0

-----------------------------------------------------------------------------
(* Formatting. *)

Thousand == 1000
Million == 1000000
Billion == 1000000000

\* f"{a / d:.0f}": the quotient rounded to an integer.  A quotient ending in
\* .5 is a double exactly, and is rounded to the even neighbour.
fixed0(a, d) ==
    LET q == a \div d
        r == a % d
    IN  ToString(IF 2 * r > d \/ (2 * r = d /\ q % 2 = 1) THEN q + 1 ELSE q)

\* Number of bits of a positive integer.
bit_length(n) == CHOOSE b \in 1..31 : 2 ^ (b - 1) <= n /\ (b = 31 \/ n < 2 ^ b)

\* Whether the double nearest to n/20 (n odd, not a multiple of 5) is above
\* n/20: it is the double nearest to n/5 divided by 4, and the part of n/5
\* cut off after 53 bits is ((n % 5) * 2^j mod 5) / 5 of the last bit kept,
\* j being the number of fraction bits kept.
double_above(n) ==
    LET j == 53 - bit_length(n \div 5)
        pow == <<1, 2, 4, 3>>[(j % 4) + 1]
    IN  ((n % 5) * pow) % 5 >= 3

\* f"{a / d:.1f}": the quotient in tenths.  A quotient that ends in 5
\* hundredths exactly is rounded as the double a / d lies: to the even
\* tenth when the double is exact, else to the side the double is on.
fixed1(a, d) ==
    LET d10 == d \div 10
        t == (a \div d) * 10 + (a % d) \div d10
        r == (a % d) % d10
        n == 2 * t + 1
        up == \/ 2 * r > d10
              \/ /\ 2 * r = d10
                 /\ IF n % 5 = 0 THEN t % 2 = 1 ELSE double_above(n)
        tenths == IF up THEN t + 1 ELSE t
    IN  ToString(tenths \div 10) \o "." \o ToString(tenths % 10)

format_currency(amount) ==
    IF amount >= Billion
    THEN "$" \o fixed1(amount, Billion) \o "B"
    ELSE IF amount >= Million
         THEN IF amount % Million = 0
              THEN "$" \o fixed0(amount, Million) \o "M"
              ELSE "$" \o fixed1(amount, Million) \o "M"
         ELSE IF amount >= Thousand
              THEN "$" \o fixed0(amount, Thousand) \o "K"
              ELSE "$" \o ToString(amount)

\* " -> ".join(history), with the arrow of the source.
RECURSIVE format_funding_history(_)
format_funding_history(history) ==
    IF history = <<>>
    THEN ""
    ELSE IF Len(history) = 1
         THEN text_of(history[1])
         ELSE text_of(history[1]) \o " → " \o format_funding_history(Tail(history))

-----------------------------------------------------------------------------
(* The company directory. *)

\* companies_data as the module defines it, before load_companies().
DefaultCompanies ==
    [t |-> "dict",
     v |-> [companies |-> <<>>, industries |-> <<>>, funding_stages |-> <<>>]]

\* COMPANIES_FILE: content is what json.load parses it to, a dict
\* ([t |-> "dict"]) or a list ([t |-> "list"]), or JInvalid, or JUndecodable.
\* statable is whether stat() of the path succeeds, as for TASKS_FILE.
MissingCompanies ==
    [statable |-> TRUE, exists |-> FALSE, readable |-> FALSE, content |-> JInvalid]
UnstatableCompanies ==
    [statable |-> FALSE, exists |-> FALSE, readable |-> FALSE, content |-> JInvalid]
UnreadableCompanies ==
    [statable |-> TRUE, exists |-> TRUE, readable |-> FALSE, content |-> JInvalid]
CompaniesFile(content) ==
    [statable |-> TRUE, exists |-> TRUE, readable |-> TRUE, content |-> content]

\* load_companies: companies_data after the call and the exception that
\* escapes it, if any.  IOError and JSONDecodeError are caught,
\* UnicodeDecodeError is not, and COMPANIES_FILE.exists() stands outside
\* the try.  There is no else branch: a missing file leaves companies_data
\* as it is.
load_companies(f, old) ==
    IF ~f.statable
    THEN [raised |-> "PermissionError", companies_data |-> old]
    ELSE IF f.exists
    THEN IF ~f.readable \/ f.content.t = "invalid"
         THEN [raised |-> "none", companies_data |-> DefaultCompanies]
         ELSE IF f.content.t = "undecodable"
              THEN [raised |-> "UnicodeDecodeError", companies_data |-> old]
              ELSE [raised |-> "none", companies_data |-> f.content]
    ELSE [raised |-> "none", companies_data |-> old]

\* The three sequential filters and the search of list_companies.
filter_industry(cs, industry) ==
    IF truthy_str(industry)
    THEN SelectSeq(cs, LAMBDA c :
             lower(get(c, "industry", <<>>)) = lower(industry[1]))
    ELSE cs

filter_funding_stage(cs, funding_stage) ==
    IF truthy_str(funding_stage)
    THEN SelectSeq(cs, LAMBDA c :
             lower(get(c, "last_round", <<>>)) = lower(funding_stage[1]))
    ELSE cs

filter_hq(cs, hq) ==
    IF truthy_str(hq)
    THEN SelectSeq(cs, LAMBDA c :
             contains(lower(hq[1]), lower(get(c, "hq", <<>>))))
    ELSE cs

\* c.get("year_founded") == year: None equals no int.
filter_year(cs, year) ==
    IF truthy_int(year)
    THEN SelectSeq(cs, LAMBDA c :
             "year_founded" \in DOMAIN c /\ c.year_founded = year[1])
    ELSE cs

filter_search(cs, search) ==
    IF truthy_str(search)
    THEN SelectSeq(cs, LAMBDA c :
             \/ contains(lower(search[1]), lower(get(c, "name", <<>>)))
             \/ contains(lower(search[1]), lower(get(c, "tagline", <<>>)))
             \/ contains(lower(search[1]), lower(get(c, "description", <<>>))))
    ELSE cs

list_companies_message(cs, industry, funding_stage) ==
    IF Len(cs) = 0
    THEN "No companies found matching the criteria."
    ELSE "Found " \o ToString(Len(cs)) \o " startup(s)"
         \o (IF truthy_str(industry) THEN " in " \o text_of(industry[1]) ELSE "")
         \o (IF truthy_str(funding_stage)
             THEN " at " \o text_of(funding_stage[1]) \o " stage" ELSE "")

list_companies(data, industry, funding_stage, hq, year, search) ==
    IF data.t # "dict"
    THEN Raised("AttributeError")
    ELSE LET cs == filter_search(
                     filter_year(
                       filter_hq(
                         filter_funding_stage(
                           filter_industry(get(data.v, "companies", <<>>),
                                           industry),
                           funding_stage),
                         hq),
                       year),
                     search)
         IN  ToolResult(list_companies_message(cs, industry, funding_stage),
                        [companies |-> cs, total |-> Len(cs),
                         industries |-> get(data.v, "industries", <<>>),
                         funding_stages |-> get(data.v, "funding_stages", <<>>)],
                        [operation |-> "list_companies",
                         outputTemplate |-> "ui://companydb/widget.html"])

\* next((c for c in companies if c.get("id") == company_id), None)
has_company(cs, company_id) ==
    \E i \in 1..Len(cs) : "id" \in DOMAIN cs[i] /\ cs[i].id = company_id

first_company(cs, company_id) ==
    cs[CHOOSE i \in 1..Len(cs) :
           /\ "id" \in DOMAIN cs[i] /\ cs[i].id = company_id
           /\ \A j \in 1..(i - 1) : ~("id" \in DOMAIN cs[j] /\ cs[j].id = company_id)]

\* {company.get(key, 'Unknown')} for a str field.
shown(company, key, default) ==
    IF key \in DOMAIN company THEN text_of(company[key]) ELSE default

\* The message of get_company, stripped.  company['name'] is read by the
\* caller; names here are not empty and do not start with white space.
get_company_message(company, funding_str, round_size, valuation) ==
    text_of(company.name) \o " - " \o shown(company, "tagline", "")
    \o "\n\nLocation: " \o shown(company, "hq", "Unknown")
    \o "\nFounded: " \o (IF "year_founded" \in DOMAIN company
                          THEN ToString(company.year_founded) ELSE "Unknown")
    \o "\nIndustry: " \o shown(company, "industry", "Unknown")
    \o "\nEmployees: " \o shown(company, "employees", "Unknown")
    \o "\n\n" \o shown(company, "description", "")
    \o "\n\nFunding History: " \o funding_str
    \o "\nLast Round: " \o shown(company, "last_round", "Unknown")
    \o " (" \o round_size \o ")"
    \o "\nValuation: " \o valuation

get_company(data, company_id) ==
    IF data.t # "dict"
    THEN Raised("AttributeError")
    ELSE LET cs == get(data.v, "companies", <<>>)
         IN  IF ~has_company(cs, company_id)
             THEN ToolResult(
                      "Error: Company with ID " \o ToString(company_id)
                          \o " not found",
                      [error |-> "Company not found", company_id |-> company_id],
                      [operation |-> "get_company", success |-> FALSE])
             ELSE LET company == first_company(cs, company_id)
                      funding_str ==
                          format_funding_history(get(company, "funding_history", <<>>))
                      round_size ==
                          format_currency(get(company, "last_round_size", 0))
                      valuation == format_currency(get(company, "valuation", 0))
                  IN  IF "name" \notin DOMAIN company
                      THEN Raised("KeyError")
                      ELSE ToolResult(
                               get_company_message(company, funding_str,
                                                   round_size, valuation),
                               [company |-> company,
                                formatted |-> [funding_history |-> funding_str,
                                               last_round_size |-> round_size,
                                               valuation |-> valuation]],
                               [operation |-> "get_company", success |-> TRUE,
                                company_id |-> company_id])

search_companies(data, query) ==
    IF data.t # "dict"
    THEN Raised("AttributeError")
    ELSE LET q == lower(query)
             matching ==
                 SelectSeq(get(data.v, "companies", <<>>), LAMBDA c :
                     \/ contains(q, lower(get(c, "name", <<>>)))
                     \/ contains(q, lower(get(c, "tagline", <<>>)))
                     \/ contains(q, lower(get(c, "description", <<>>)))
                     \/ contains(q, lower(get(c, "industry", <<>>))))
         IN  ToolResult(
                 IF Len(matching) = 0
                 THEN "No companies found matching '" \o text_of(query) \o "'"
                 ELSE "Found " \o ToString(Len(matching))
                      \o " company(ies) matching '" \o text_of(query) \o "'",
                 [companies |-> matching, total |-> Len(matching),
                  query |-> query,
                  industries |-> get(data.v, "industries", <<>>),
                  funding_stages |-> get(data.v, "funding_stages", <<>>)],
                 [operation |-> "search_companies",
                  outputTemplate |-> "ui://companydb/widget.html"])

-----------------------------------------------------------------------------
(* Company files and arguments explored. *)

Seed == <<"S", "e", "e", "d">>

\* A full record; a record with few display fields; a record without a name.
CompanyFull ==
    [id |-> 1, name |-> <<"A", "i">>, tagline |-> <<"m", "l">>,
     description |-> <<"B", "i", "o">>, industry |-> <<"A", "I">>,
     hq |-> <<"S", "F">>, year_founded |-> 2020, employees |-> <<"9">>,
     last_round |-> Seed, last_round_size |-> 3200000,
     valuation |-> 1500000000, funding_history |-> <<Seed, <<"A">> >>]

CompanySparse ==
    [id |-> 2, name |-> <<"B", "i", "o">>, industry |-> <<"B", "i", "o">>,
     hq |-> <<"É", "v", "r", "y">>, year_founded |-> 2021, valuation |-> 45000]

CompanyNameless ==
    [id |-> 3, tagline |-> <<"a", "i">>, hq |-> <<"S", "F", "O">>,
     last_round |-> Seed]

CompanyFiles ==
    { MissingCompanies,
      UnstatableCompanies,
      UnreadableCompanies,
      CompaniesFile(JInvalid),
      CompaniesFile(JUndecodable),
      CompaniesFile([t |-> "list", v |-> <<>>]),
      CompaniesFile([t |-> "dict",
                     v |-> [industries |-> << <<"A", "I">> >>]]),
      CompaniesFile([t |-> "dict",
                     v |-> [companies |-> <<CompanyFull, CompanySparse,
                                            CompanyNameless>>,
                            industries |-> << <<"A", "I">>, <<"B", "i", "o">> >>,
                            funding_stages |-> <<Seed>>]]) }

IndustryArgs == {None, Some(<<"a", "i">>), Some(<<"B", "i", "o">>)}
FundingStageArgs == {None, Some(<<"S", "E", "E", "D">>)}
HqArgs == {None, Some(<<>>), Some(<<"s", "f">>), Some(<<"é", "V">>)}
YearArgs == {None, Some(0), Some(2020)}
SearchArgs == {None, Some(<<"b", "i">>)}
CompanyIds == {1, 2, 3, 9}
Queries == {<<>>, <<"b", "i", "o">>, <<"A", "I">>, <<"z">>}

-----------------------------------------------------------------------------
(* Actions. *)

\* Bookkeeping of a save_tasks call: whether it caught an IOError (the
\* branch that prints "Error saving tasks"), and how many did so far.
Saved(io) ==
    /\ save_failed' = (io # "ok")
    /\ faults' = IF io = "ok" THEN faults ELSE faults + 1

\* Module import: load_tasks(), then load_companies() unless load_tasks
\* raised.  An exception out of either fails the import and the process
\* never serves a call; call is then the module-level call that raised,
\* and load_companies, the last one made, otherwise.
Startup ==
    /\ pc = "boot"
    /\ LET r == load_tasks(file, tasks, task_id_counter)
           c == load_companies(companies_file, companies_data)
       IN  /\ tasks' = r.tasks
           /\ task_id_counter' = r.task_id_counter
           /\ IF r.raised # "none"
              THEN /\ call' = [op |-> "load_tasks"]
                   /\ result' = Raised(r.raised)
                   /\ pc' = "crashed"
                   /\ UNCHANGED companies_data
              ELSE /\ call' = [op |-> "load_companies"]
                   /\ result' = Raised(c.raised)
                   /\ pc' = IF c.raised = "none" THEN "running" ELSE "crashed"
                   /\ companies_data' = c.companies_data
    /\ UNCHANGED <<file, save_failed, faults, companies_file>>

AddTask ==
    /\ pc = "running"
    /\ task_id_counter < MaxCounter
    /\ \E text \in Texts, now \in Times, io \in Io(file, faults),
          umask \in Umasks :
         /\ tasks' = Append(tasks, new_task(task_id_counter, text, now))
         /\ task_id_counter' = task_id_counter + 1
         /\ file' = save_tasks(file, tasks', task_id_counter', io, umask)
         /\ Saved(io)
         /\ call' = [op |-> "add_task", text |-> text, now |-> now]
         /\ result' = ToolResult(
                "Added task: '" \o text \o "'. Total tasks: "
                    \o ToString(Len(tasks')),
                [tasks |-> tasks', total |-> Len(tasks'),
                 latest_task |-> tasks'[Len(tasks')]],
                [operation |-> "add_task", task_id |-> tasks'[Len(tasks')].id])
    /\ UNCHANGED <<pc, companies_file, companies_data>>

ListTasks ==
    /\ pc = "running"
    /\ \E now \in Times :
         /\ call' = [op |-> "list_tasks", now |-> now]
         /\ result' = list_result(tasks, now)
    /\ UNCHANGED <<pc, tasks, task_id_counter, file, save_failed, faults,
                   companies_file, companies_data>>

CompleteTask ==
    /\ pc = "running"
    /\ \E task_id \in TaskIds, now \in Times, io \in Io(file, faults),
          umask \in Umasks :
         /\ call' = [op |-> "complete_task", task_id |-> task_id, now |-> now]
         /\ tasks' = complete_loop(tasks, task_id, isoformat(now))
         /\ IF ~HasTask(tasks, task_id)
            THEN /\ result' = task_not_found("complete_task", task_id)
                 /\ UNCHANGED <<file, save_failed, faults>>
            ELSE /\ file' = save_tasks(file, tasks', task_id_counter, io, umask)
                 /\ Saved(io)
                 /\ result' = ToolResult(
                        "Task " \o ToString(task_id) \o " marked as completed",
                        [tasks |-> tasks', total |-> Len(tasks'),
                         task_id |-> task_id],
                        [operation |-> "complete_task", success |-> TRUE,
                         task_id |-> task_id])
    /\ UNCHANGED <<pc, task_id_counter, companies_file, companies_data>>

DeleteTask ==
    /\ pc = "running"
    /\ \E task_id \in TaskIds, io \in Io(file, faults), umask \in Umasks :
         /\ call' = [op |-> "delete_task", task_id |-> task_id]
         /\ tasks' = delete_filter(tasks, task_id)
         /\ IF Len(tasks') = Len(tasks)
            THEN /\ result' = task_not_found("delete_task", task_id)
                 /\ UNCHANGED <<file, save_failed, faults>>
            ELSE /\ file' = save_tasks(file, tasks', task_id_counter, io, umask)
                 /\ Saved(io)
                 /\ result' = ToolResult(
                        "Task " \o ToString(task_id) \o " deleted successfully",
                        [tasks |-> tasks', total |-> Len(tasks')],
                        [operation |-> "delete_task", success |-> TRUE,
                         task_id |-> task_id])
    /\ UNCHANGED <<pc, task_id_counter, companies_file, companies_data>>

\* The process ends (is stopped, or dies) and the module is imported again:
\* the globals are back to the values of their definitions.
Restart ==
    /\ pc \in {"running", "crashed"}
    /\ pc' = "boot"
    /\ tasks' = <<>>
    /\ task_id_counter' = 1
    /\ call' = NoCall
    /\ result' = ReturnedNone
    /\ save_failed' = FALSE
    /\ companies_data' = DefaultCompanies
    /\ UNCHANGED <<file, faults, companies_file>>

ListCompanies ==
    /\ pc = "running"
    /\ \E industry \in IndustryArgs, funding_stage \in FundingStageArgs,
          hq \in HqArgs, year \in YearArgs, search \in SearchArgs :
         /\ call' = [op |-> "list_companies", industry |-> industry,
                     funding_stage |-> funding_stage, hq |-> hq,
                     year |-> year, search |-> search]
         /\ result' = list_companies(companies_data, industry, funding_stage,
                                     hq, year, search)
    /\ UNCHANGED <<pc, tasks, task_id_counter, file, save_failed, faults,
                   companies_file, companies_data>>

GetCompany ==
    /\ pc = "running"
    /\ \E company_id \in CompanyIds :
         /\ call' = [op |-> "get_company", company_id |-> company_id]
         /\ result' = get_company(companies_data, company_id)
    /\ UNCHANGED <<pc, tasks, task_id_counter, file, save_failed, faults,
                   companies_file, companies_data>>

SearchCompanies ==
    /\ pc = "running"
    /\ \E query \in Queries :
         /\ call' = [op |-> "search_companies", query |-> query]
         /\ result' = search_companies(companies_data, query)
    /\ UNCHANGED <<pc, tasks, task_id_counter, file, save_failed, faults,
                   companies_file, companies_data>>

-----------------------------------------------------------------------------
(* Specifications. *)

\* The globals as the module defines them, before load_tasks() runs.
Globals ==
    /\ pc = "boot"
    /\ tasks = <<>>
    /\ task_id_counter = 1
    /\ call = NoCall
    /\ result = ReturnedNone
    /\ save_failed = FALSE
    /\ faults = 0
    /\ companies_data = DefaultCompanies

\* The task store, started on any task file, over restarts.
Init == Globals /\ file \in InitFiles /\ companies_file = MissingCompanies

Next == Startup \/ AddTask \/ ListTasks \/ CompleteTask \/ DeleteTask \/ Restart

Spec == Init /\ [][Next]_vars

\* One process lifetime of the task store on a fresh store (no task file).
InitFresh == Globals /\ file = MissingFile /\ companies_file = MissingCompanies

NextFresh == Startup \/ AddTask \/ ListTasks \/ CompleteTask \/ DeleteTask

SpecFresh == InitFresh /\ [][NextFresh]_vars

\* The company directory, started on any company file.
InitCompanies == Globals /\ file = MissingFile /\ companies_file \in CompanyFiles

NextCompanies == Startup \/ ListCompanies \/ GetCompany \/ SearchCompanies

SpecCompanies == InitCompanies /\ [][NextCompanies]_vars

-----------------------------------------------------------------------------
(* Properties of the task store. *)

\* What load_tasks would read from the file now.
Reloaded == load_tasks(file, <<>>, 1)

\* The document in the file is the state in memory, whether or not the
\* process may read the file.
Written ==
    /\ file.exists
    /\ LET r == load_tasks(TextFile(file.content), <<>>, 1)
       IN  /\ r.raised = "none"
           /\ r.tasks = tasks
           /\ r.task_id_counter = task_id_counter

\* The file holds the state in memory: loading it gives tasks and counter.
Mirrored ==
    /\ Reloaded.raised = "none"
    /\ Reloaded.tasks = tasks
    /\ Reloaded.task_id_counter = task_id_counter

\* The payload and flag of a NotFound result for the task id asked for.
IsTaskNotFound(r, task_id) ==
    /\ r.raised = "none"
    /\ r.sc = [error |-> "Task not found", task_id |-> task_id]
    /\ r.meta.success = FALSE

IdsDistinct(ts) ==
    \A i, j \in 1..Len(ts) : i # j => ts[i].id # ts[j].id

\* One step of a fresh store: load_tasks sets the counter to 1, add_task
\* returns the current counter and raises it by one, and no other call
\* changes it; so the ids returned are 1, 2, 3, ... and none comes twice.
C1_Step ==
    /\ pc = "boot" => task_id_counter' = 1
    /\ pc = "running" /\ call'.op = "add_task" =>
         /\ result'.meta.task_id = task_id_counter
         /\ result'.sc.latest_task.id = task_id_counter
         /\ tasks'[Len(tasks')].id = task_id_counter
         /\ task_id_counter' = task_id_counter + 1
    /\ pc = "running" /\ call'.op # "add_task" =>
         task_id_counter' = task_id_counter

\* C1: on a fresh store the ids add_task returns are 1, 2, 3, ..., the
\* counter never decreases, and the ids in the collection are pairwise
\* distinct and below the counter, also after deletes.
C1_IdsIncreaseAndNeverRepeat ==
    /\ [](pc = "running" =>
            /\ IdsDistinct(tasks)
            /\ \A i \in 1..Len(tasks) : tasks[i].id \in 1..(task_id_counter - 1))
    /\ [][C1_Step]_vars

\* C1 witness: task 1 was deleted and the next add_task still got id 2.
C1_Witness ==
    /\ call.op = "add_task"
    /\ result.meta.task_id = 2
    /\ ~HasTask(tasks, 1)
    /\ task_id_counter = 3

\* C2: complete_task or delete_task with an id no task has returns the
\* NotFound payload with that id and success = false, and leaves the
\* collection, the counter and the file as they were.
C2_NotFoundChangesNothing ==
    [][(/\ pc = "running"
        /\ call'.op \in {"complete_task", "delete_task"}
        /\ ~HasTask(tasks, call'.task_id))
       => /\ IsTaskNotFound(result', call'.task_id)
          /\ tasks' = tasks
          /\ task_id_counter' = task_id_counter
          /\ file' = file]_vars

\* C2 witness: a NotFound result on a store that holds tasks and a file.
C2_Witness ==
    /\ call.op \in {"complete_task", "delete_task"}
    /\ "error" \in DOMAIN result.sc
    /\ Len(tasks) >= 2
    /\ file.exists /\ file.readable /\ file.content.t = "obj"

\* C3 as claimed: after every add_task, complete_task and delete_task the
\* file mirrors the state in memory.
C3_FileMirrorsMemory ==
    pc = "running" /\ call.op \in {"add_task", "complete_task", "delete_task"}
        => Mirrored

\* C3 as amended: after every add_task, complete_task and delete_task the
\* file mirrors the state in memory unless the last save_tasks of the
\* process caught an IOError or the process may not read the file (a file
\* it may write but not read is written, and load_tasks then gives the
\* empty collection).
C3_FileMirrorsMemoryUnlessWriteFailed ==
    /\ pc = "running"
    /\ call.op \in {"add_task", "complete_task", "delete_task"}
    /\ ~save_failed
    /\ file.readable
    => Mirrored

\* C3 witness: a write failed earlier, a later complete_task wrote the file
\* again, and the store holds a completed and a pending task.
C3_Witness ==
    /\ call.op = "complete_task"
    /\ result.meta.success
    /\ ~save_failed
    /\ file.readable
    /\ faults > 0
    /\ \E i, j \in 1..Len(tasks) :
         "completed_at" \in DOMAIN tasks[i] /\ tasks[j].status = "pending"

\* C4: complete_task(id) right after delete_task(id) returns NotFound and
\* changes no task.
C4_CompleteAfterDeleteNotFound ==
    [][(/\ call.op = "delete_task"
        /\ call'.op = "complete_task"
        /\ call'.task_id = call.task_id)
       => /\ IsTaskNotFound(result', call'.task_id)
          /\ tasks' = tasks]_vars

\* C4 witness: delete_task removed two tasks with the id, others remain, and
\* complete_task with the same id can follow.
C4_Witness ==
    /\ call.op = "delete_task"
    /\ result.meta.success
    /\ result.sc.total = 1
    /\ Len(tasks) = 1
    /\ ENABLED (CompleteTask /\ call'.task_id = call.task_id)

\* C5 as claimed: load_tasks never raises (the import never ends in it),
\* and on a file that is missing, unreadable, not JSON or not a JSON object
\* it leaves the empty collection and counter 1.
C5_LoadNeverFails ==
    call.op \in {"load_tasks", "load_companies"} =>
        /\ ~(call.op = "load_tasks" /\ result.raised # "none")
        /\ (~file.exists \/ ~file.readable \/ file.content.t # "obj") =>
               tasks = <<>> /\ task_id_counter = 1

\* The result of list_tasks: the collection, its exact counts and the
\* message of the two cases.
C8_Result ==
    call.op = "list_tasks" =>
        LET p == Cardinality({i \in 1..Len(tasks) : tasks[i].status = "pending"})
            c == Cardinality({i \in 1..Len(tasks) : tasks[i].status = "completed"})
        IN  /\ result.raised = "none"
            /\ result.sc.tasks = tasks
            /\ result.sc.total = Len(tasks)
            /\ result.sc.pending = p
            /\ result.sc.completed = c
            /\ result.text =
                 IF Len(tasks) = 0
                 THEN "No tasks found. Add your first task to get started!"
                 ELSE "Found " \o ToString(Len(tasks)) \o " task(s): "
                      \o ToString(p) \o " pending, " \o ToString(c) \o " completed"

\* C8: list_tasks returns the collection with its exact counts and the
\* message of the two cases, and changes neither the collection, the
\* counter nor the file.
C8_ListTasksExactAndReadOnly ==
    /\ []C8_Result
    /\ [][call'.op = "list_tasks" =>
            UNCHANGED <<tasks, task_id_counter, file>>]_vars

\* C8 witness: the example of one pending and one completed task.
C8_Witness ==
    /\ call.op = "list_tasks"
    /\ result.text = "Found 2 task(s): 1 pending, 1 completed"
    /\ result.sc.pending = 1 /\ result.sc.completed = 1

\* The effect of complete_task on the collection and its result, for a
\* step that completes a task: only the first task with the id changes.
C9_Frame ==
    LET id == call'.task_id
        k == CHOOSE i \in 1..Len(tasks) :
                 tasks[i].id = id /\ \A j \in 1..(i - 1) : tasks[j].id # id
    IN  /\ Len(tasks') = Len(tasks)
        /\ \A i \in 1..Len(tasks) : i # k => tasks'[i] = tasks[i]
        /\ DOMAIN tasks'[k] = DOMAIN tasks[k] \cup {"completed_at"}
        /\ tasks'[k].status = "completed"
        /\ tasks'[k].completed_at = isoformat(call'.now)
        /\ tasks'[k].id = tasks[k].id
        /\ tasks'[k].text = tasks[k].text
        /\ tasks'[k].created_at = tasks[k].created_at
        /\ task_id_counter' = task_id_counter
        /\ result'.raised = "none"
        /\ result'.meta.success = TRUE
        /\ result'.meta.task_id = id
        /\ result'.sc.task_id = id
        /\ result'.sc.tasks = tasks'

C9_Completes ==
    /\ pc = "running"
    /\ call'.op = "complete_task"
    /\ HasTask(tasks, call'.task_id)

\* C9 as claimed: complete_task with a matching id changes the first match
\* only, and the resulting state is persisted.
C9_CompleteFirstMatchPersisted ==
    [][C9_Completes => C9_Frame /\ Written']_vars

\* C9 as amended: complete_task with a matching id changes the first match
\* only, and save_tasks writes the resulting state: the document in the
\* file is that state unless the write caught an IOError.
C9_CompleteFirstMatchSaved ==
    [][C9_Completes => C9_Frame /\ (save_failed' \/ Written')]_vars

\* C9 witness: two tasks have the id, the first is completed at the call's
\* time and the second is still pending.
C9_Witness ==
    /\ call.op = "complete_task"
    /\ result.meta.success
    /\ ~save_failed
    /\ \E i, j \in 1..Len(tasks) :
         /\ i < j
         /\ tasks[i].id = call.task_id /\ tasks[j].id = call.task_id
         /\ tasks[i].status = "completed"
         /\ tasks[i].completed_at = isoformat(call.now)
         /\ tasks[j].status = "pending"

\* The effect of delete_task on the collection and its result, for a step
\* that deletes: the tasks with another id stay, in order and unmodified.
C10_Frame ==
    /\ tasks' = SelectSeq(tasks, LAMBDA t : t.id # call'.task_id)
    /\ task_id_counter' = task_id_counter
    /\ result'.raised = "none"
    /\ result'.sc.tasks = tasks'
    /\ result'.sc.total = Len(tasks')
    /\ result'.meta.success = TRUE

C10_Deletes ==
    /\ pc = "running"
    /\ call'.op = "delete_task"
    /\ HasTask(tasks, call'.task_id)

\* C10 as claimed: delete_task with a matching id removes every task with
\* the id and nothing else, and the resulting state is persisted.
C10_DeleteEveryMatchPersisted ==
    [][C10_Deletes => C10_Frame /\ Written']_vars

\* C10 as amended: delete_task with a matching id removes every task with
\* the id and nothing else, and save_tasks writes the resulting state: the
\* document in the file is that state unless the write caught an IOError.
C10_DeleteEveryMatchSaved ==
    [][C10_Deletes => C10_Frame /\ (save_failed' \/ Written')]_vars

\* C10 witness: the two tasks with id 2 around task 1 are gone, task 1 is
\* left, the counter is still 3 and the file holds that state.
C10_Witness ==
    /\ call.op = "delete_task"
    /\ call.task_id = 2
    /\ result.meta.success
    /\ Len(tasks) = 1 /\ tasks[1].id = 1
    /\ task_id_counter = 3
    /\ ~save_failed
    /\ Mirrored

-----------------------------------------------------------------------------
(* Properties of the company directory. *)

\* The companies of the directory, when it is a dict.
Directory == get(companies_data.v, "companies", <<>>)

\* C6 as claimed: get_company never raises; an id no company has gives the
\* NotFound payload with success = false, and an id a company has gives
\* success with the record and the three formatted strings, whichever
\* display fields the record lacks.
C6_GetCompanyNeverRaises ==
    call.op = "get_company" /\ companies_data.t = "dict" =>
        LET found == \E i \in 1..Len(Directory) :
                         /\ "id" \in DOMAIN Directory[i]
                         /\ Directory[i].id = call.company_id
        IN  /\ result.raised = "none"
            /\ ~found =>
                 /\ result.sc = [error |-> "Company not found",
                                 company_id |-> call.company_id]
                 /\ result.meta.success = FALSE
            /\ found =>
                 /\ result.meta.success = TRUE
                 /\ result.sc.company.id = call.company_id
                 /\ DOMAIN result.sc.formatted =
                      {"funding_history", "last_round_size", "valuation"}

\* A company passes every filter the call provides (every argument that is
\* not None), as the claim reads them.
PassesProvidedFilters(c) ==
    /\ call.industry # None =>
         lower(get(c, "industry", <<>>)) = lower(call.industry[1])
    /\ call.funding_stage # None =>
         lower(get(c, "last_round", <<>>)) = lower(call.funding_stage[1])
    /\ call.hq # None =>
         contains(lower(call.hq[1]), lower(get(c, "hq", <<>>)))
    /\ call.year # None =>
         "year_founded" \in DOMAIN c /\ c.year_founded = call.year[1]
    /\ call.search # None =>
         \/ contains(lower(call.search[1]), lower(get(c, "name", <<>>)))
         \/ contains(lower(call.search[1]), lower(get(c, "tagline", <<>>)))
         \/ contains(lower(call.search[1]), lower(get(c, "description", <<>>)))

\* C7 as claimed: list_companies returns exactly the companies that pass
\* every provided filter, total is their number, and the two vocabularies
\* are the full lists of the directory.
C7_ListCompaniesAppliesEveryFilter ==
    call.op = "list_companies" /\ result.raised = "none" =>
        LET want == SelectSeq(Directory, PassesProvidedFilters)
        IN  /\ result.sc.companies = want
            /\ result.sc.total = Len(want)
            /\ result.sc.industries = get(companies_data.v, "industries", <<>>)
            /\ result.sc.funding_stages =
                 get(companies_data.v, "funding_stages", <<>>)

====
